---------------------------- MODULE Spec2Model ----------------------------
(***************************************************************************)
(* A model of the log service: the ingest Lambda (lambda/ingest/index.py), *)
(* the read-recent Lambda (lambda/read_recent/index.py) and the DynamoDB   *)
(* table with its DateTimeIndex that they share (log_service_stack.py).    *)
(*                                                                         *)
(* Text whose characters the code inspects (the dateTime field, matched    *)
(* against ISO8601_RE and compared by the index) is a sequence of          *)
(* character codes.  Text the code only copies or compares for equality    *)
(* (ids, severities, messages) is a TLA+ string.                           *)
(***************************************************************************)
EXTENDS Integers, Sequences, FiniteSets, TLC

VARIABLES
    store,      \* the items of LogTable (a set of records)
    pc,         \* "idle" | "ingest" | "read" | "done": the invocation at hand
    event,      \* the request (Function URL event) of the invocation
    resp,       \* the response the handler returned
    logged,     \* the records the invocation wrote to the operational log
    before,     \* the table as it was when the invocation's handler began
    inflight,   \* SpecConc: each concurrent ingest's position and item
    putOrder    \* SpecConc: the invocations in the order of their put_item

vars == <<store, pc, event, resp, logged, before, inflight, putOrder>>

-----------------------------------------------------------------------------
(* JSON values as json.loads yields them.  k is the Python type; s the     *)
(* text of a str; n the value of an int, 0/1 of a bool, the length of a    *)
(* list or dict.  "none" is both a missing key and JSON null: dict.get     *)
(* returns None for either.                                                *)

JNone == [k |-> "none", s |-> "", n |-> 0]
JStr(s) == [k |-> "str", s |-> s, n |-> 0]
JInt(n) == [k |-> "int", s |-> "", n |-> n]
JBool(b) == [k |-> "bool", s |-> "", n |-> IF b THEN 1 ELSE 0]
JList(n) == [k |-> "list", s |-> "", n |-> n]
JDict(n) == [k |-> "dict", s |-> "", n |-> n]

\* Python truthiness (bool(v)), as `not body.get("message")` and `or` use it.
Truthy(v) ==
    CASE v.k = "none" -> FALSE
      [] v.k = "str" -> v.s # ""
      [] OTHER -> v.n # 0

\* hash(v) succeeds: a list or a dict is unhashable, and `v in a_set` raises
\* TypeError for it.
Hashable(v) == v.k \notin {"list", "dict"}

\* The dateTime field: the same, with the text as character codes.
DtNone == [k |-> "none", s |-> <<>>, n |-> 0]
DtStr(s) == [k |-> "str", s |-> s, n |-> 0]
DtInt(n) == [k |-> "int", s |-> <<>>, n |-> n]

-----------------------------------------------------------------------------
(* Characters. *)

ChPlus == <<43>>
ChMinus == <<45>>
ChDot == <<46>>
ChColon == <<58>>
ChT == <<84>>
ChZ == <<90>>

\* \d of a str pattern: any Unicode decimal digit.  The ASCII digits and,
\* standing for the other Nd blocks, the Arabic-Indic digits U+0660..U+0669.
IsDigit(c) == c \in 48..57 \/ c \in 1632..1641

TwoDigits(n) == <<48 + ((n \div 10) % 10), 48 + (n % 10)>>
FourDigits(n) == TwoDigits(n \div 100) \o TwoDigits(n % 100)
SixDigits(n) == TwoDigits(n \div 10000) \o FourDigits(n % 10000)

RECURSIVE DecDigits(_)
\* str(n) of an int n >= 0
DecDigits(n) == IF n < 10 THEN <<48 + n>> ELSE DecDigits(n \div 10) \o <<48 + (n % 10)>>

DtTruthy(dt) ==
    CASE dt.k = "none" -> FALSE
      [] dt.k = "str" -> dt.s # <<>>
      [] OTHER -> dt.n # 0

\* str(dt) as line 50 takes it
PyStr(dt) ==
    CASE dt.k = "str" -> dt.s
      [] dt.k = "int" -> DecDigits(dt.n)
      [] OTHER -> <<78, 111, 110, 101>>   \* "None"

-----------------------------------------------------------------------------
(* ISO8601_RE.match(s):                                                    *)
(*   ^\d{4}-\d{2}-\d{2}[T ]\d{2}:\d{2}:\d{2}(\.\d+)?(Z|[+-]\d{2}:?\d{2})?$ *)

AllDigits(s, from, to) == \A i \in from..to : IsDigit(s[i])

\* \d{4}-\d{2}-\d{2}[T ]\d{2}:\d{2}:\d{2}, the first 19 characters
MatchDateTime(s) ==
    /\ Len(s) >= 19
    /\ AllDigits(s, 1, 4) /\ s[5] = 45
    /\ AllDigits(s, 6, 7) /\ s[8] = 45
    /\ AllDigits(s, 9, 10) /\ s[11] \in {84, 32}
    /\ AllDigits(s, 12, 13) /\ s[14] = 58
    /\ AllDigits(s, 15, 16) /\ s[17] = 58
    /\ AllDigits(s, 18, 19)

\* The length of the longest run of digits of s that starts at position i.
RECURSIVE DigitRun(_, _)
DigitRun(s, i) == IF i <= Len(s) /\ IsDigit(s[i]) THEN 1 + DigitRun(s, i + 1) ELSE 0

\* (\.\d+)? : how many characters the group takes at position 20.  \d+ is
\* greedy, and giving a digit back never helps: no digit can follow it.
FractionLen(s) ==
    IF Len(s) >= 20 /\ s[20] = 46 /\ DigitRun(s, 21) >= 1
    THEN 1 + DigitRun(s, 21)
    ELSE 0

\* (Z|[+-]\d{2}:?\d{2})? followed by the end of the text
MatchZone(t) ==
    \/ t = <<>>
    \/ t = ChZ
    \/ /\ Len(t) = 5 /\ t[1] \in {43, 45} /\ AllDigits(t, 2, 5)
    \/ /\ Len(t) = 6 /\ t[1] \in {43, 45} /\ AllDigits(t, 2, 3)
       /\ t[4] = 58 /\ AllDigits(t, 5, 6)

MatchToEnd(s) ==
    /\ MatchDateTime(s)
    /\ MatchZone(SubSeq(s, 20 + FractionLen(s), Len(s)))

\* $ matches at the end of the text and also just before one final newline.
ISO8601_RE(s) ==
    \/ MatchToEnd(s)
    \/ /\ Len(s) >= 1 /\ s[Len(s)] = 10
       /\ MatchToEnd(SubSeq(s, 1, Len(s) - 1))

-----------------------------------------------------------------------------
(* datetime.now(timezone.utc).isoformat(): an aware UTC datetime prints as *)
(* YYYY-MM-DDTHH:MM:SS.ffffff+00:00, and without the fraction when its     *)
(* microsecond is 0.                                                       *)

IsoFormat(t) ==
    FourDigits(t.year) \o ChMinus \o TwoDigits(t.month) \o ChMinus \o TwoDigits(t.day)
      \o ChT \o TwoDigits(t.hour) \o ChColon \o TwoDigits(t.minute)
      \o ChColon \o TwoDigits(t.second)
      \o (IF t.microsecond = 0 THEN <<>> ELSE ChDot \o SixDigits(t.microsecond))
      \o ChPlus \o TwoDigits(0) \o ChColon \o TwoDigits(0)

-----------------------------------------------------------------------------
(* _validate(body) *)

VALID_SEVERITIES == {"info", "warning", "error"}

MissingSeverity == [code |-> "Missing required field: 'severity'", value |-> JNone, dt |-> DtNone]
InvalidSeverity(v) == [code |-> "Invalid severity", value |-> v, dt |-> DtNone]
MissingMessage == [code |-> "Missing required field: 'message'", value |-> JNone, dt |-> DtNone]
InvalidDateTime(d) == [code |-> "Invalid dateTime format", value |-> JNone, dt |-> d]

\* `severity in VALID_SEVERITIES` for a hashable severity
InValidSeverities(v) == v.k = "str" /\ v.s \in VALID_SEVERITIES

SeverityErrors(severity) ==
    IF severity.k = "none" THEN <<MissingSeverity>>
    ELSE IF ~InValidSeverities(severity) THEN <<InvalidSeverity(severity)>>
    ELSE <<>>

\* The message check after a mutant: `is None` in place of `not`
MessageErrorsNoneOnly(message) == IF message.k = "none" THEN <<MissingMessage>> ELSE <<>>

MessageErrors(message) == IF ~Truthy(message) THEN <<MissingMessage>> ELSE <<>>

\* The dateTime check after a mutant: the pattern is never applied
DateTimeErrorsSkipped(dt) == <<>>

DateTimeErrors(dt) ==
    IF dt.k # "none" /\ ~ISO8601_RE(PyStr(dt)) THEN <<InvalidDateTime(dt)>> ELSE <<>>

\* The result of _validate: the list of errors, or raised when the
\* membership test of line 39 hashes an unhashable severity (TypeError).
Validate(body) ==
    IF body.severity.k # "none" /\ ~Hashable(body.severity)
    THEN [raised |-> TRUE, errors |-> <<>>]
    ELSE [raised |-> FALSE,
          errors |-> SeverityErrors(body.severity) \o MessageErrors(body.message)
                       \o DateTimeErrors(body.dateTime)]

-----------------------------------------------------------------------------
(* LogTable: partition key LogID (STRING); DateTimeIndex: partition key     *)
(* LogType (STRING), sort key DateTime (STRING), all attributes projected.  *)
(* An item is a record of typed attribute values.                           *)

LOG == JStr("LOG")

\* The store raised an error (ClientError, a timeout, ...): put_item and
\* query are single calls that either take effect and return or raise and,
\* as the specification takes the store to be, leave the table as it was.
StoreRaised(st) == [raised |-> TRUE, store |-> st, items |-> <<>>]

\* put_item after a mutant: an update that leaves the old message in place
PutItemMerge(st, item, fails) ==
    IF fails \/ item.LogID.k # "str"
    THEN StoreRaised(st)
    ELSE [raised |-> FALSE,
          store |-> {i \in st : i.LogID # item.LogID}
                      \cup {[item EXCEPT !.Message = old.Message] :
                              old \in {i \in st : i.LogID = item.LogID}}
                      \cup (IF \E i \in st : i.LogID = item.LogID THEN {} ELSE {item}),
          items |-> <<>>]

\* put_item after a mutant: the table is keyed by LogType, not by LogID
PutItemKeyedByLogType(st, item, fails) ==
    IF fails \/ item.LogID.k # "str"
    THEN StoreRaised(st)
    ELSE [raised |-> FALSE,
          store |-> {i \in st : i.LogType # item.LogType} \cup {item},
          items |-> <<>>]

\* table.put_item(Item=item): an unconditional create-or-replace by primary
\* key.  The table's key schema makes DynamoDB reject (ValidationException)
\* an item whose LogID is not a string; `fails` is the store being
\* unavailable.
PutItem(st, item, fails) ==
    IF fails \/ item.LogID.k # "str"
    THEN StoreRaised(st)
    ELSE [raised |-> FALSE,
          store |-> {i \in st : i.LogID # item.LogID} \cup {item},
          items |-> <<>>]

\* The order of DynamoDB string sort keys: by UTF-8 bytes, which is the order
\* of the code points; a proper prefix sorts first.
RECURSIVE LessFrom(_, _, _)
LessFrom(a, b, i) ==
    IF i > Len(a) THEN i <= Len(b)
    ELSE IF i > Len(b) THEN FALSE
    ELSE IF a[i] # b[i] THEN a[i] < b[i]
    ELSE LessFrom(a, b, i + 1)

StrLess(a, b) == LessFrom(a, b, 1)

\* The items DateTimeIndex holds under the partition key value
InPartition(st, tag) ==
    {i \in st : i.LogType = tag /\ i.DateTime.k = "str"}

\* The place of every item of S in the index read from one end: `ahead` items
\* come strictly before it, `ties` items (itself included) share its sort key.
Placed(S, forward) ==
    {[item  |-> i,
      ahead |-> Cardinality({j \in S : IF forward
                                       THEN StrLess(j.DateTime.s, i.DateTime.s)
                                       ELSE StrLess(i.DateTime.s, j.DateTime.s)}),
      ties  |-> Cardinality({j \in S : j.DateTime.s = i.DateTime.s})] : i \in S}

\* The items that can stand at position p of the read
Slot(R, p) == {r.item : r \in {x \in R : x.ahead < p /\ p <= x.ahead + x.ties}}

RECURSIVE Page(_, _, _)
\* Every choice of one item per position lo..hi
Page(R, lo, hi) ==
    IF lo > hi THEN {<<>>}
    ELSE IF lo = hi THEN {<<i>> : i \in Slot(R, lo)}
    ELSE LET mid == (lo + hi) \div 2
         IN  {a \o b : a \in Page(R, lo, mid), b \in Page(R, mid + 1, hi)}

\* Every sequence the index can return reading S from one end, at most
\* `limit` items: by sort key, items with equal keys in any order, no item
\* twice.
Scan(S, forward, limit) ==
    LET n == IF Cardinality(S) < limit THEN Cardinality(S) ELSE limit
        R == Placed(S, forward)
    IN  {q \in Page(R, 1, n) : \A a, b \in 1..n : a # b => q[a] # q[b]}

\* table.query(IndexName=..., KeyConditionExpression=Key("LogType").eq(tag),
\*             ScanIndexForward=forward, Limit=limit): the possible "Items"
Query(st, tag, forward, limit) == Scan(InPartition(st, tag), forward, limit)

-----------------------------------------------------------------------------
(* Responses.  One record shape for every response of either handler.      *)

NoBody == [kind |-> "", error |-> "", method |-> "", errors |-> <<>>,
           id |-> JNone, dateTime |-> DtNone, count |-> 0, logs |-> <<>>]

NoResponse == [statusCode |-> 0, body |-> NoBody]

MethodNotAllowed(method, use) ==
    [statusCode |-> 405,
     body |-> [NoBody EXCEPT !.kind = "error", !.error = "Method not allowed. Use " \o use,
                             !.method = method]]

MalformedBody ==
    [statusCode |-> 400,
     body |-> [NoBody EXCEPT !.kind = "error", !.error = "Request body must be valid JSON"]]

ValidationFailure(errors) ==
    [statusCode |-> 400, body |-> [NoBody EXCEPT !.kind = "errors", !.errors = errors]]

InternalServerError ==
    [statusCode |-> 500,
     body |-> [NoBody EXCEPT !.kind = "error", !.error = "Internal server error"]]

Created(log_id, date_time) ==
    [statusCode |-> 200,
     body |-> [NoBody EXCEPT !.kind = "Log entry created", !.id = log_id,
                             !.dateTime = date_time]]

RecentLogs(logs) ==
    [statusCode |-> 200,
     body |-> [NoBody EXCEPT !.kind = "logs", !.count = Len(logs), !.logs = logs]]

\* What _handle did: the response it returned, or that it raised; and the table.
Returned(r, st) == [raised |-> FALSE, resp |-> r, store |-> st]
Raised(st) == [raised |-> TRUE, resp |-> NoResponse, store |-> st]

-----------------------------------------------------------------------------
(* lambda/ingest/index.py *)

\* json.loads of an empty raw body is skipped: body = {}
EmptyRecord ==
    [form |-> "json", top |-> "dict", severity |-> JNone, message |-> JNone,
     id |-> JNone, dateTime |-> DtNone]

\* Lines 105-116: the item built from a validated body.
BuildItem(body, uuid4, now) ==
    [LogID |-> IF Truthy(body.id) THEN body.id ELSE JStr(uuid4),
     DateTime |-> IF DtTruthy(body.dateTime) THEN body.dateTime ELSE DtStr(IsoFormat(now)),
     Severity |-> body.severity,
     Message |-> body.message,
     LogType |-> LOG]

\* _handle after a mutant: the item is written before the body is validated
IngestHandleWritesFirst(ev, st, uuid4, now, fails) ==
    IF ev.method # "POST" THEN Returned(MethodNotAllowed(ev.method, "POST"), st)
    ELSE IF ev.isBase64Encoded /\ ev.body.form = "undecodable" THEN Raised(st)
    ELSE IF ev.body.form = "malformed" THEN Returned(MalformedBody, st)
    ELSE LET body == IF ev.body.form = "empty" THEN EmptyRecord ELSE ev.body
         IN  IF body.top # "dict" THEN Raised(st)
             ELSE LET item == BuildItem(body, uuid4, now)
                      put == PutItem(st, item, fails)
                      v == Validate(body)
                  IN  IF put.raised \/ v.raised THEN Raised(put.store)
                      ELSE IF v.errors # <<>>
                      THEN Returned(ValidationFailure(v.errors), put.store)
                      ELSE Returned(Created(item.LogID, item.DateTime), put.store)

NoItem == [LogID |-> JNone, DateTime |-> DtNone, Severity |-> JNone, Message |-> JNone,
           LogType |-> JNone]

\* Lines 70-116 of _handle: everything before the store call.  Either the
\* handler is done (it returned a response or raised) or it holds the item
\* it is about to put.
IngestPrepare(ev, uuid4, now) ==
    LET Done(r) == [done |-> TRUE, raised |-> FALSE, resp |-> r, item |-> NoItem]
        Fail == [done |-> TRUE, raised |-> TRUE, resp |-> NoResponse, item |-> NoItem]
    IN  IF ev.method # "POST" THEN Done(MethodNotAllowed(ev.method, "POST"))
        ELSE IF ev.isBase64Encoded /\ ev.body.form = "undecodable" THEN Fail
        ELSE IF ev.body.form = "malformed" THEN Done(MalformedBody)
        ELSE LET body == IF ev.body.form = "empty" THEN EmptyRecord ELSE ev.body
             IN  IF body.top # "dict" THEN Fail
                 ELSE LET v == Validate(body)
                      IN  IF v.raised THEN Fail
                          ELSE IF v.errors # <<>> THEN Done(ValidationFailure(v.errors))
                          ELSE [done |-> FALSE, raised |-> FALSE, resp |-> NoResponse,
                                item |-> BuildItem(body, uuid4, now)]

\* Lines 118-130 of _handle: the store call and the success response.
IngestPut(item, st, fails) ==
    LET put == PutItem(st, item, fails)
    IN  IF put.raised THEN Raised(put.store)
        ELSE Returned(Created(item.LogID, item.DateTime), put.store)

\* _handle(event) of the ingest Lambda, on table st; uuid4, now and fails are
\* what uuid.uuid4(), datetime.now() and the store do in this invocation.
IngestHandle(ev, st, uuid4, now, fails) ==
    LET p == IngestPrepare(ev, uuid4, now)
    IN  IF p.done
        THEN (IF p.raised THEN Raised(st) ELSE Returned(p.resp, st))
        ELSE IngestPut(p.item, st, fails)

\* The catch-all of handler(event, context) around what _handle did
CatchAll(ev, r) ==
    IF r.raised
    THEN [resp |-> InternalServerError, store |-> r.store, logged |-> <<ev>>]
    ELSE [resp |-> r.resp, store |-> r.store, logged |-> <<>>]

\* handler after a mutant: the event is logged on every invocation
IngestHandlerLogsAlways(ev, st, uuid4, now, fails) ==
    LET r == IngestHandle(ev, st, uuid4, now, fails)
    IN  [resp |-> IF r.raised THEN InternalServerError ELSE r.resp,
         store |-> r.store, logged |-> <<ev>>]

\* handler(event, context): the catch-all around _handle.  What the
\* invocation leaves: the response, the table and the log records it wrote.
IngestHandler(ev, st, uuid4, now, fails) ==
    CatchAll(ev, IngestHandle(ev, st, uuid4, now, fails))

-----------------------------------------------------------------------------
(* lambda/read_recent/index.py *)

Limit == 100

\* boto3's resource layer returns a DynamoDB number as a decimal.Decimal.
Deserialize(v) == IF v.k = "int" THEN [v EXCEPT !.k = "Decimal"] ELSE v

\* json.dumps accepts the value (it raises TypeError for a Decimal).
JsonSerializable(v) == v.k # "Decimal"

\* Lines 62-70: the public shape of one item
Project(item) ==
    [id |-> Deserialize(item.LogID), dateTime |-> item.DateTime,
     severity |-> Deserialize(item.Severity), message |-> Deserialize(item.Message)]

\* _handle(event) of the read-recent Lambda, on table st, when the query
\* returns `items` (one of Query's sequences) or fails.
ReadHandle(ev, st, items, fails) ==
    IF ev.method # "GET" THEN Returned(MethodNotAllowed(ev.method, "GET"), st)
    ELSE IF fails THEN Raised(st)
    ELSE LET logs == [n \in 1..Len(items) |-> Project(items[n])]
         IN  IF \E n \in 1..Len(logs) :
                    ~(JsonSerializable(logs[n].id) /\ JsonSerializable(logs[n].severity)
                        /\ JsonSerializable(logs[n].message))
             THEN Raised(st)
             ELSE Returned(RecentLogs(logs), st)

ReadHandler(ev, st, items, fails) ==
    CatchAll(ev, ReadHandle(ev, st, items, fails))

\* Every outcome a read-recent invocation can have on table st, the store
\* failing or not as `failures` allows
ReadOutcomes(ev, st, failures) ==
    {ReadHandler(ev, st, items, fails) :
        items \in Query(st, LOG, FALSE, Limit), fails \in failures}

-----------------------------------------------------------------------------
(* The requests, the clock and the identifiers of the model.               *)

\* 2024-01-01T09:00:00Z
tsA == FourDigits(2024) \o ChMinus \o TwoDigits(1) \o ChMinus \o TwoDigits(1) \o ChT
         \o TwoDigits(9) \o ChColon \o TwoDigits(0) \o ChColon \o TwoDigits(0) \o ChZ
\* 2024-01-01T10:00:00+02:00, the instant 08:00:00Z
tsB == FourDigits(2024) \o ChMinus \o TwoDigits(1) \o ChMinus \o TwoDigits(1) \o ChT
         \o TwoDigits(10) \o ChColon \o TwoDigits(0) \o ChColon \o TwoDigits(0)
         \o ChPlus \o TwoDigits(2) \o ChColon \o TwoDigits(0)
\* 2024-01-01, a date without a time
tsBad == FourDigits(2024) \o ChMinus \o TwoDigits(1) \o ChMinus \o TwoDigits(1)

Severities ==
    {JNone, JStr("info"), JStr("error"), JStr("Info"), JInt(5), JBool(TRUE), JList(1),
     JDict(1)}
Messages == {JNone, JStr(""), JStr(" "), JStr("disk full"), JInt(5)}
Ids == {JNone, JStr(""), JStr("x1"), JInt(7)}
DateTimes == {DtNone, DtStr(tsA), DtStr(tsB), DtStr(tsBad), DtInt(20240101)}

Records ==
    [form : {"json"}, top : {"dict"}, severity : Severities, message : Messages,
     id : Ids, dateTime : DateTimes]

\* A body that is not a record: empty, not JSON, JSON but not an object
\* (a list), not base64 though flagged so.
NoRecord(form, top) == [EmptyRecord EXCEPT !.form = form, !.top = top]

ValidRecord == [EmptyRecord EXCEPT !.severity = JStr("info"), !.message = JStr("disk full")]

IngestEvents ==
    [method : {"POST"}, isBase64Encoded : {FALSE}, body : Records]
      \cup [method : {"POST"}, isBase64Encoded : {FALSE},
            body : {NoRecord("empty", "dict"), NoRecord("malformed", "dict"),
                    NoRecord("json", "list")}]
      \cup [method : {"POST"}, isBase64Encoded : {TRUE},
            body : {NoRecord("undecodable", "dict"), ValidRecord}]
      \cup [method : {"GET", ""}, isBase64Encoded : {FALSE}, body : {ValidRecord}]

ReadEvents ==
    [method : {"GET", "POST", ""}, isBase64Encoded : {FALSE}, body : {NoRecord("empty", "dict")}]

NoEvent == [method |-> "", isBase64Encoded |-> FALSE, body |-> NoRecord("none", "dict")]

\* What uuid.uuid4() can return
Uuids == {"u1"}

\* uuid4 draws 122 random bits: in Spec it returns an identifier no stored
\* entry has, and a request that needs one arrives while one is left.
\* (SpecConc lets two invocations draw the same identifier.)
FreshUuids(st) == {u \in Uuids : \A i \in st : i.LogID # JStr(u)}

\* What datetime.now(timezone.utc) can return
Clock ==
    {[year |-> 2024, month |-> 1, day |-> 1, hour |-> 9, minute |-> 30, second |-> 0,
      microsecond |-> 123456],
     [year |-> 2024, month |-> 1, day |-> 1, hour |-> 9, minute |-> 30, second |-> 1,
      microsecond |-> 0]}

-----------------------------------------------------------------------------
(* Spec: one invocation at a time, of either Lambda.                       *)

Init ==
    /\ store = {}
    /\ pc = "idle"
    /\ event = NoEvent
    /\ resp = NoResponse
    /\ logged = <<>>
    /\ before = {}
    /\ inflight = <<>>
    /\ putOrder = <<>>

\* The Function URL of the ingest Lambda receives a request.
IngestInvoked ==
    /\ pc = "idle"
    /\ \E ev \in IngestEvents :
         /\ Truthy(ev.body.id) \/ FreshUuids(store) # {}
         /\ event' = ev
    /\ pc' = "ingest"
    /\ UNCHANGED <<store, resp, logged, before, inflight, putOrder>>

\* handler(event, context) of the ingest Lambda runs.
Ingest ==
    /\ pc = "ingest"
    /\ \E uuid4 \in (IF FreshUuids(store) # {} THEN FreshUuids(store) ELSE Uuids),
          now \in Clock, fails \in BOOLEAN :
         LET out == IngestHandler(event, store, uuid4, now, fails)
         IN  /\ store' = out.store
             /\ resp' = out.resp
             /\ logged' = out.logged
    /\ pc' = "ingested"
    /\ before' = store
    /\ UNCHANGED <<event, inflight, putOrder>>

\* The Function URL of the read-recent Lambda receives a request.
ReadInvoked ==
    /\ pc = "idle"
    /\ \E ev \in ReadEvents : event' = ev
    /\ pc' = "read"
    /\ UNCHANGED <<store, resp, logged, before, inflight, putOrder>>

\* handler(event, context) of the read-recent Lambda runs.
ReadRecent ==
    /\ pc = "read"
    /\ \E out \in ReadOutcomes(event, store, BOOLEAN) :
         /\ store' = out.store
         /\ resp' = out.resp
         /\ logged' = out.logged
    /\ pc' = "answered"
    /\ before' = store
    /\ UNCHANGED <<event, inflight, putOrder>>

\* The response is delivered and the invocation ends.
Respond ==
    /\ pc \in {"ingested", "answered"}
    /\ pc' = "idle"
    /\ event' = NoEvent
    /\ resp' = NoResponse
    /\ logged' = <<>>
    /\ before' = {}
    /\ UNCHANGED <<store, inflight, putOrder>>

Next == IngestInvoked \/ Ingest \/ ReadInvoked \/ ReadRecent \/ Respond

Spec == Init /\ [][Next]_vars

-----------------------------------------------------------------------------
(* SpecConc: concurrent invocations of the ingest Lambda.  An invocation    *)
(* touches the table in its put_item call alone, so it is two steps: the    *)
(* handler up to the store call, and the store call with the return.        *)

NumInvocations == 2

Invocations == 1..NumInvocations

ConcEvents ==
    [method : {"POST"}, isBase64Encoded : {FALSE},
     body : [form : {"json"}, top : {"dict"},
             severity : {JStr("info"), JStr("error")},
             message : {JStr("disk full"), JStr(" ")},
             id : {JStr("x1"), JStr("x2"), JNone},
             dateTime : {DtStr(tsA)}]]
      \cup [method : {"POST"}, isBase64Encoded : {FALSE},
            body : {NoRecord("empty", "dict")}]

Waiting == [at |-> "start", event |-> NoEvent, item |-> NoItem, resp |-> NoResponse]

InitConc ==
    /\ store = {}
    /\ pc = "idle"
    /\ event = NoEvent
    /\ resp = NoResponse
    /\ logged = <<>>
    /\ before = {}
    /\ inflight = [p \in Invocations |-> Waiting]
    /\ putOrder = <<>>

\* Invocation p receives its request and runs up to the store call.
ConcPrepare(p) ==
    /\ inflight[p].at = "start"
    /\ \E ev \in ConcEvents, uuid4 \in Uuids, now \in Clock :
         LET r == IngestPrepare(ev, uuid4, now)
         IN  inflight' =
               [inflight EXCEPT ![p] =
                  IF r.done
                  THEN [at |-> "done", event |-> ev, item |-> NoItem,
                        resp |-> CatchAll(ev, IF r.raised THEN Raised(store)
                                              ELSE Returned(r.resp, store)).resp]
                  ELSE [at |-> "put", event |-> ev, item |-> r.item, resp |-> NoResponse]]
    /\ UNCHANGED <<store, pc, event, resp, logged, before, putOrder>>

\* Invocation p's put_item takes effect (or fails), and p returns.
ConcPut(p) ==
    /\ inflight[p].at = "put"
    /\ \E fails \in BOOLEAN :
         LET out == CatchAll(inflight[p].event, IngestPut(inflight[p].item, store, fails))
         IN  /\ store' = out.store
             /\ inflight' = [inflight EXCEPT ![p].at = "done", ![p].resp = out.resp]
             /\ putOrder' = IF out.resp.statusCode = 200 THEN Append(putOrder, p) ELSE putOrder
    /\ UNCHANGED <<pc, event, resp, logged, before>>

NextConc == \E p \in Invocations : ConcPrepare(p) \/ ConcPut(p)

SpecConc == InitConc /\ [][NextConc]_vars

-----------------------------------------------------------------------------
(* SpecLimit: a table that grows past the query's limit.  Clients send      *)
(* numbered entries, the k-th with id "e<k>" and dateTime                   *)
(* 2024-01-01T00:MM:SSZ, k seconds after midnight, and one entry "late"     *)
(* with dateTime 2024-01-01T00:00:00-05:00, the instant 05:00:00Z.          *)

MaxEntries == 102

Numbered(k) ==
    [ValidRecord EXCEPT
       !.id = JStr("e" \o ToString(k)),
       !.dateTime = DtStr(SubSeq(tsA, 1, 11) \o TwoDigits(0) \o ChColon \o TwoDigits(k \div 60)
                            \o ChColon \o TwoDigits(k % 60) \o ChZ)]

tsLate == SubSeq(tsA, 1, 11) \o TwoDigits(0) \o ChColon \o TwoDigits(0) \o ChColon
            \o TwoDigits(0) \o ChMinus \o TwoDigits(5) \o ChColon \o TwoDigits(0)

Late == [ValidRecord EXCEPT !.id = JStr("late"), !.dateTime = DtStr(tsLate)]

\* The ingest Lambda receives the next numbered entry or the late one.
LimitInvoked ==
    /\ pc = "idle"
    /\ Cardinality(store) < MaxEntries
    /\ \E body \in {Numbered(Cardinality({i \in store : i.LogID # Late.id}) + 1), Late} :
         event' = [method |-> "POST", isBase64Encoded |-> FALSE, body |-> body]
    /\ pc' = "ingest"
    /\ UNCHANGED <<store, resp, logged, before, inflight, putOrder>>

NextLimit == LimitInvoked \/ Ingest \/ ReadInvoked \/ ReadRecent \/ Respond

SpecLimit == Init /\ [][NextLimit]_vars

-----------------------------------------------------------------------------
(* The instant a timestamp names, for the claims that speak of chronology.  *)
(* A timestamp without a zone is read as UTC.                               *)

DigitValue(c) == IF c \in 48..57 THEN c - 48 ELSE c - 1632

RECURSIVE Number(_, _, _)
\* The number the digits s[from..to] write
Number(s, from, to) ==
    IF from > to THEN 0 ELSE 10 * Number(s, from, to - 1) + DigitValue(s[to])

\* Days from 2000-01-01 to the civil date y-m-d
DaysFromCivil(y, m, d) ==
    LET yy == IF m <= 2 THEN y - 1 ELSE y
        era == yy \div 400
        yoe == yy - era * 400
        mp == (m + 9) % 12
        doy == ((153 * mp + 2) \div 5) + d - 1
        doe == yoe * 365 + (yoe \div 4) - (yoe \div 100) + doy
    IN  era * 146097 + doe - 730425

\* Minutes east of UTC of the zone suffix z (empty, Z, +HH:MM, +HHMM)
OffsetMinutes(z) ==
    IF Len(z) < 5 THEN 0
    ELSE (IF z[1] = 45 THEN -1 ELSE 1)
           * (60 * Number(z, 2, 3) + Number(z, Len(z) - 1, Len(z)))

\* Seconds from 2000-01-01T00:00:00Z to the instant s names
InstantSeconds(s) ==
    LET t == IF s[Len(s)] = 10 THEN SubSeq(s, 1, Len(s) - 1) ELSE s
    IN  DaysFromCivil(Number(t, 1, 4), Number(t, 6, 7), Number(t, 9, 10)) * 86400
          + Number(t, 12, 13) * 3600 + Number(t, 15, 16) * 60 + Number(t, 18, 19)
          - 60 * OffsetMinutes(SubSeq(t, 20 + FractionLen(t), Len(t)))

\* The microseconds of s: its fraction's first six digits
InstantMicros(s) ==
    LET k == FractionLen(s) - 1
    IN  IF k < 1 THEN 0
        ELSE Number(SubSeq(s, 21, 20 + k) \o <<48, 48, 48, 48, 48>>, 1, 6)

\* a names an earlier instant than b
Earlier(a, b) ==
    \/ InstantSeconds(a) < InstantSeconds(b)
    \/ InstantSeconds(a) = InstantSeconds(b) /\ InstantMicros(a) < InstantMicros(b)

-----------------------------------------------------------------------------
(* The claims, under Spec.                                                  *)

\* The invocation's request carries a record: a POST whose body parses to a
\* JSON object (an empty body is the empty record).
HasRecord(ev) ==
    /\ ev.method = "POST"
    /\ ev.body.form \in {"json", "empty"}
    /\ ev.body.top = "dict"

\* The record the ingest handler validates
RecordOf(ev) == IF ev.body.form = "empty" THEN EmptyRecord ELSE ev.body

\* C1: an ingest never leaves a partial write.  It returns 200, 400, 405 or
\* 500; when it returns 200 the table is the one before with exactly the
\* entry of the id the response reports added or replaced; when it returns
\* anything else the table is as it was before the request.
C1_NoPartialWrite ==
    pc = "ingested" =>
        /\ resp.statusCode \in {200, 400, 405, 500}
        /\ resp.statusCode = 200 =>
             \E item \in store :
                /\ item.LogID = resp.body.id
                /\ store = {i \in before : i.LogID # item.LogID} \cup {item}
        /\ resp.statusCode # 200 => store = before

\* C1's case: a valid record whose put_item failed, on a table that holds an
\* entry: the answer is 500 and nothing was written.
C1_Witness ==
    /\ pc = "ingested"
    /\ resp.statusCode = 500
    /\ HasRecord(event)
    /\ ~Validate(RecordOf(event)).raised
    /\ Validate(RecordOf(event)).errors = <<>>
    /\ event.body.id = JStr("x1")
    /\ store # {}
    /\ store = before

\* C2 as claimed: when the stored entries name pairwise distinct instants, a
\* recent-query lists them newest first: an entry that names a later instant
\* precedes one that names an earlier instant.
C2_NewestFirst ==
    (/\ pc = "answered"
     /\ resp.statusCode = 200
     /\ \A i, j \in store :
          i # j => Earlier(i.DateTime.s, j.DateTime.s) \/ Earlier(j.DateTime.s, i.DateTime.s))
    => \A a, b \in 1..Len(resp.body.logs) :
          Earlier(resp.body.logs[b].dateTime.s, resp.body.logs[a].dateTime.s) => a < b

\* The recent-query request
GetEvent == [method |-> "GET", isBase64Encoded |-> FALSE, body |-> NoRecord("empty", "dict")]

\* C4 as claimed: a successful ingest that supplied a non-empty id and a
\* dateTime reports exactly these, and the recent-query issued next (the
\* store answering) returns 200 with an entry of exactly that id, dateTime,
\* severity and message.
C4_RoundTrip ==
    (/\ pc = "ingested"
     /\ resp.statusCode = 200
     /\ Truthy(event.body.id)
     /\ event.body.dateTime.k # "none")
    => /\ resp.body.id = event.body.id
       /\ resp.body.dateTime = event.body.dateTime
       /\ \A out \in ReadOutcomes(GetEvent, store, {FALSE}) :
            /\ out.resp.statusCode = 200
            /\ \E n \in 1..Len(out.resp.body.logs) :
                 out.resp.body.logs[n] =
                    [id |-> event.body.id, dateTime |-> event.body.dateTime,
                     severity |-> event.body.severity, message |-> event.body.message]

\* C5 as claimed: an entry, once stored, stays in the table with the same
\* timestamp, severity and message through every later request.
C5_NeverMutated ==
    pc \in {"ingested", "answered"} => \A i \in before : i \in store

\* C5 as amended: an entry is never deleted, a recent-query changes nothing,
\* and an entry's fields change only when an ingest that returns 200 for the
\* same id replaces it.
C5_ReplacedOnlyByIngest ==
    pc \in {"ingested", "answered"} =>
        \A i \in before :
            /\ \E j \in store : j.LogID = i.LogID
            /\ i \notin store =>
                 /\ pc = "ingested"
                 /\ resp.statusCode = 200
                 /\ resp.body.id = i.LogID

\* C5's case: a successful ingest replaced the stored entry of its id by an
\* entry with another message, and left the other entry alone.
C5_Witness ==
    /\ pc = "ingested"
    /\ resp.statusCode = 200
    /\ Cardinality(before) = 2
    /\ \E i \in before : i.LogID = resp.body.id /\ i \notin store
    /\ \E i \in before : i.LogID # resp.body.id /\ i \in store

\* Whitespace-only text, among the messages of the model
WhitespaceOnly(v) == v = JStr(" ")

\* C7 as claimed: a record with no message, an empty message or a
\* whitespace-only message is answered 400 with the missing-message error,
\* and nothing is written.
C7_BlankMessageRejected ==
    (/\ pc = "ingested"
     /\ HasRecord(event)
     /\ LET m == RecordOf(event).message
        IN  m.k = "none" \/ m = JStr("") \/ WhitespaceOnly(m))
    => /\ resp.statusCode = 400
       /\ \E n \in 1..Len(resp.body.errors) : resp.body.errors[n] = MissingMessage
       /\ store = before

\* C7 as amended: a record with no message or an empty message is never
\* written and never answered 200; the answer is 400 with the
\* missing-message error, unless the severity is a list or an object, on
\* which the Validator raises before the message check and the answer is 500.
C7_MissingMessageRejected ==
    (/\ pc = "ingested"
     /\ HasRecord(event)
     /\ LET m == RecordOf(event).message IN m.k = "none" \/ m = JStr(""))
    => /\ store = before
       /\ IF Hashable(RecordOf(event).severity)
          THEN /\ resp.statusCode = 400
               /\ \E n \in 1..Len(resp.body.errors) : resp.body.errors[n] = MissingMessage
          ELSE resp = InternalServerError

\* C7's case: an empty message beside an invalid severity and an invalid
\* dateTime: the three errors are reported together.
C7_Witness ==
    /\ pc = "ingested"
    /\ HasRecord(event)
    /\ event.body.message = JStr("")
    /\ resp.statusCode = 400
    /\ Len(resp.body.errors) = 3
    /\ resp.body.errors[2] = MissingMessage
    /\ before # {}

\* C8 as claimed: a record whose severity is present and not one of info,
\* warning, error, of whatever type, is answered 400 with the
\* invalid-severity error naming the value, and nothing is written.
C8_InvalidSeverityRejected ==
    (/\ pc = "ingested"
     /\ HasRecord(event)
     /\ RecordOf(event).severity.k # "none"
     /\ ~InValidSeverities(RecordOf(event).severity))
    => /\ resp.statusCode = 400
       /\ resp.body.errors # <<>>
       /\ resp.body.errors[1] = InvalidSeverity(RecordOf(event).severity)
       /\ store = before

\* C9: in both handlers the request is logged exactly when the answer is
\* 500: an invocation always ends with a response; a 500 carries the fixed
\* body and the log holds the one record of the request; a 200, 400 or 405
\* leaves no log record.
C9_LoggedIffInternalError ==
    pc \in {"ingested", "answered"} =>
        /\ resp.statusCode \in {200, 400, 405, 500}
        /\ resp.statusCode = 500 => resp = InternalServerError /\ logged = <<event>>
        /\ resp.statusCode # 500 => logged = <<>>

\* C9's case: the query of a recent-query request failed in the store.
C9_Witness ==
    /\ pc = "answered"
    /\ event.method = "GET"
    /\ resp = InternalServerError
    /\ logged = <<event>>
    /\ \A i \in store : i.Message.k = "str"

\* C10: every stored entry has a non-empty string id, a severity among
\* info, warning, error, a non-empty message, a timestamp text that matches
\* ISO8601_RE and the partition tag LOG; so the "LOG" partition of the index
\* holds every stored entry.
C10_StoredEntriesWellFormed ==
    /\ \A i \in store :
          /\ i.LogID.k = "str" /\ i.LogID.s # ""
          /\ i.Severity.k = "str" /\ i.Severity.s \in VALID_SEVERITIES
          /\ Truthy(i.Message)
          /\ i.DateTime.k = "str" /\ ISO8601_RE(i.DateTime.s)
          /\ i.LogType = LOG
    /\ InPartition(store, LOG) = store

\* C10's case: the table holds an entry with a client's id and timestamp
\* and one with a generated id and a generated timestamp.
C10_Witness ==
    /\ \E i \in store : i.LogID = JStr("x1") /\ i.DateTime = DtStr(tsB)
    /\ \E i \in store : i.LogID = JStr("u1") /\ i.DateTime.s \notin {tsA, tsB}

-----------------------------------------------------------------------------
(* The claim under SpecConc.                                                *)

\* The invocations whose put_item took effect for the id, in put order
PutsOf(id) == SelectSeq(putOrder, LAMBDA p : inflight[p].item.LogID = id)

\* C6: under every interleaving of concurrent ingests the table holds at
\* most one entry per id, and the entry of an id is, in all its fields, the
\* item of the invocation whose put_item for that id took effect last; so
\* once invocations with pairwise distinct ids have returned 200 the table
\* holds every one of their items.
C6_LastWriteWins ==
    /\ \A i, j \in store : i.LogID = j.LogID => i = j
    /\ \A i \in store :
          /\ PutsOf(i.LogID) # <<>>
          /\ i = inflight[PutsOf(i.LogID)[Len(PutsOf(i.LogID))]].item
    /\ \A p \in Invocations :
          inflight[p].resp.statusCode = 200 => \E i \in store : i.LogID = inflight[p].item.LogID
    /\ (/\ \A p \in Invocations : inflight[p].resp.statusCode = 200
        /\ \A p, q \in Invocations : p # q => inflight[p].item.LogID # inflight[q].item.LogID)
       => store = {inflight[p].item : p \in Invocations}

\* C6's case: two invocations with the same id and different severities
\* and messages have both returned 200, the second one's put first.
C6_Witness ==
    /\ \A p \in Invocations : p <= 2 => inflight[p].resp.statusCode = 200
    /\ inflight[1].item.LogID = inflight[2].item.LogID
    /\ inflight[1].item.Severity # inflight[2].item.Severity
    /\ inflight[1].item.Message # inflight[2].item.Message
    /\ SelectSeq(putOrder, LAMBDA p : p <= 2) = <<2, 1>>
    /\ \E i \in store : i = inflight[1].item

-----------------------------------------------------------------------------
(* The claim under SpecLimit.                                               *)

\* The stored entries a recent-query's answer leaves out
LeftOut == {i \in store : \A n \in 1..Len(resp.body.logs) : resp.body.logs[n].id # i.LogID}

\* C3 as claimed: a recent-query that the store answers returns
\* min(n, 100) of the n stored entries, count is the length of the list, and
\* no entry left out names a later instant than an entry that is returned.
C3_HundredMostRecent ==
    (pc = "answered" /\ resp.statusCode = 200) =>
        /\ Len(resp.body.logs) = IF Cardinality(store) < 100 THEN Cardinality(store) ELSE 100
        /\ resp.body.count = Len(resp.body.logs)
        /\ \A i \in LeftOut : \A n \in 1..Len(resp.body.logs) :
              ~Earlier(resp.body.logs[n].dateTime.s, i.DateTime.s)

\* What the code does give: min(n, 100) entries, count their number, in
\* descending order of the stored text, none left out with a greater text.
RecentByStoredText ==
    (pc = "answered" /\ resp.statusCode = 200) =>
        /\ Len(resp.body.logs) = IF Cardinality(store) < Limit THEN Cardinality(store) ELSE Limit
        /\ resp.body.count = Len(resp.body.logs)
        /\ \A a, b \in 1..Len(resp.body.logs) :
              a < b => ~StrLess(resp.body.logs[a].dateTime.s, resp.body.logs[b].dateTime.s)
        /\ \A i \in LeftOut : \A n \in 1..Len(resp.body.logs) :
              ~StrLess(resp.body.logs[n].dateTime.s, i.DateTime.s)

=============================================================================
